---------------------------- MODULE Spec2Model ----------------------------
(***************************************************************************)
(* Clock startup of the stm32cl_blink_led example: main(), flash_latency() *)
(* and pll_start() of main.c, with the RCC / FLASH registers they access.  *)
(*                                                                         *)
(* A 32-bit register is the set of the positions of its 1 bits, so that    *)
(* "reg |= word" is set union and "word << n" moves positions.  A uint32_t *)
(* variable is held as an integer; where an unsigned subtraction wraps     *)
(* below zero the integer is the two's-complement representative of the    *)
(* word (0 - 1 is held as -1, whose bits are all 32 ones, see WordBits).   *)
(***************************************************************************)
EXTENDS Integers, Sequences, FiniteSets, TLC

(***************************************************************************)
(* Bounds of the model.                                                    *)
(***************************************************************************)
\* failed polls of a readiness flag that are counted (the count saturates,
\* the spinning itself is not bounded)
MaxPolls == 2

\* pairs (crystal, frequency) pll_start() is called with: the values of the
\* three config.h files, inputs around the thresholds of flash_latency() and of
\* the PLL1 range check, inputs for which no setting is valid, and inputs
\* for which the truncating divisions and the 6.5 multiplier decide the result,
\* a crystal too slow for PLL2, and crystals around 2^32 / 20, from where on
\* crystal / div2 * mul2 passes 2^32
Inputs ==
    {<<25000000, 72000000>>, <<8000000, 168000000>>, <<12000000, 72000000>>,
     <<7372800, 72000000>>}
    \cup ({0, 1200000, 2000001}
          \X {0, 17999999, 18000000, 23999999, 24000000, 47999999,
              48000000, 58500000, 72000000})
    \cup ({899999, 214748364, 214748365, 216000000} \X {72000000})

\* contents of FLASH->ACR, RCC->CR, RCC->CFGR and RCC->CFGR2 when main() is
\* entered: all bits clear, or bits left set by earlier code
EntryImages ==
    {[acr |-> {}, cr |-> {}, cfgr |-> {}, cfgr2 |-> {}],
     [acr |-> {0, 4}, cr |-> {0, 1, 7}, cfgr |-> {4, 19}, cfgr2 |-> {0, 9}]}

\* contents of the locals div1, div2, mul1, mul2, pll1_frequency and
\* pll2_frequency, which pll_start() declares without initialiser, when it is
\* entered: zero, or what an earlier run of the same loops has left there
EntryLocals ==
    {[div1 |-> 0, div2 |-> 0, mul1 |-> 0, mul2 |-> 0, pll1 |-> 0, pll2 |-> 0],
     [div1 |-> 17, div2 |-> 17, mul1 |-> 11, mul2 |-> 21,
      pll1 |-> 72000000, pll2 |-> 40000000]}

(***************************************************************************)
(* Register layout (hdr_rcc.h).                                            *)
(***************************************************************************)
RCC_CR_PLL2RDY_bit == 27
RCC_CR_PLL2ON_bit == 26
RCC_CR_PLLRDY_bit == 25
RCC_CR_PLLON_bit == 24
RCC_CR_HSERDY_bit == 17
RCC_CR_HSEON_bit == 16

RCC_CFGR_PLLMUL_bit == 18
RCC_CFGR_PLLSRC_bit == 16
RCC_CFGR_PPRE1_bit == 8
RCC_CFGR_SWS_bit == 2
RCC_CFGR_SW_bit == 0

RCC_CFGR_PLLMUL6_5_value == 13
RCC_CFGR_PPRE1_DIV2_value == 4
RCC_CFGR_SWS_PLL_value == 2
RCC_CFGR_SWS_mask == 3
RCC_CFGR_SW_PLL_value == 2

RCC_CFGR2_PREDIV1SRC_bit == 16
RCC_CFGR2_PLL2MUL_bit == 8
RCC_CFGR2_PREDIV2_bit == 4
RCC_CFGR2_PREDIV1_bit == 0
RCC_CFGR2_PLL2MUL20_value == 15

RCC_CFGR_PLLMUL_mask == 15
RCC_CFGR2_PLL2MUL_mask == 15
RCC_CFGR2_PREDIV2_mask == 15
RCC_CFGR2_PREDIV1_mask == 15

\* RCC_CFGR_PLLMULn_value, by multiplier n (10 standing for 6.5)
RCC_CFGR_PLLMUL_value ==
    (4 :> 2) @@ (5 :> 3) @@ (6 :> 4) @@ (7 :> 5) @@ (8 :> 6) @@ (9 :> 7)
        @@ (10 :> RCC_CFGR_PLLMUL6_5_value)

\* RCC_CFGR2_PLL2MULn_value, by multiplier n
RCC_CFGR2_PLL2MUL_value ==
    (8 :> 6) @@ (9 :> 7) @@ (10 :> 8) @@ (11 :> 9) @@ (12 :> 10)
        @@ (13 :> 11) @@ (14 :> 12) @@ (16 :> 14)
        @@ (20 :> RCC_CFGR2_PLL2MUL20_value)

\* RCC_CFGR2_PREDIV2_DIVn_value, by divider n = 1, ..., 16
RCC_CFGR2_PREDIV2_value == <<0, 1, 2, 3, 4, 5, 6, 7, 8, 9, 10, 11, 12, 13, 14, 15>>

\* RCC_CFGR2_PREDIV1_DIVn_value, by divider n = 1, ..., 16
RCC_CFGR2_PREDIV1_value == <<0, 1, 2, 3, 4, 5, 6, 7, 8, 9, 10, 11, 12, 13, 14, 15>>

(***************************************************************************)
(* 32-bit words.                                                           *)
(***************************************************************************)
Pow2(n) == 2 ^ n

\* the 1 bits of the 32-bit word whose two's-complement representative is v
WordBits(v) ==
    IF v >= 0
    THEN {i \in 0..30 : (v \div Pow2(i)) % 2 = 1}
    ELSE (0..31) \ {i \in 0..30 : ((-v - 1) \div Pow2(i)) % 2 = 1}

\* word << n, bits shifted past position 31 are lost
Shl(bits, n) == {i + n : i \in {j \in bits : j + n <= 31}}

\* unsigned a - b of two words below 2^31, as a two's-complement representative
Sub32(a, b) == a - b

\* the exact product a * b of a word a and a small factor b (at most 2^15),
\* as <<h, l>> with a * b = h * 2^16 + l and l < 2^16
WideMul(a, b) ==
    LET ah == (a \div 65536) % 65536
        al == a % 65536
    IN  <<ah * b + ((al * b) \div 65536), (al * b) % 65536>>

\* the exact product a * b fits in 32 bits
FitsWord(a, b) == WideMul(a, b)[1] < 65536

\* unsigned 32-bit a * b, as a two's-complement representative
Mul32(a, b) ==
    LET w == WideMul(a, b)
        h == w[1] % 65536
    IN  (IF h >= 32768 THEN h - 65536 ELSE h) * 65536 + w[2]

\* unsigned 32-bit a / d for a divisor d >= 1 below 2^15; a word of 2^31 or
\* more is a - 2^31 (held as x) plus 2^31
Div32(a, d) ==
    IF a >= 0 THEN a \div d
    ELSE IF d = 1 THEN a
    ELSE LET x == (a + 2147483647) + 1
         IN  (x \div d) + (2147483647 \div d)
                 + (((x % d) + (2147483647 % d) + 1) \div d)

\* (reg >> lo) & (2^width - 1)
RECURSIVE FieldValue(_, _, _)
FieldValue(reg, lo, width) ==
    IF width = 0 THEN 0
    ELSE (IF lo \in reg THEN 1 ELSE 0) + 2 * FieldValue(reg, lo + 1, width - 1)

\* (reg >> lo) & mask, for a mask 2^n - 1
Field(reg, lo, mask) == FieldValue(reg, lo, Cardinality(WordBits(mask)))

(***************************************************************************)
(* Masks of stm32f10x.h used by pll_start(), as bit sets.                  *)
(***************************************************************************)
RCC_CFGR2_PREDIV1SRC == {RCC_CFGR2_PREDIV1SRC_bit}
RCC_CFGR_PLLSRC == {RCC_CFGR_PLLSRC_bit}
RCC_CFGR_PPRE1_DIV2 == Shl(WordBits(RCC_CFGR_PPRE1_DIV2_value), RCC_CFGR_PPRE1_bit)
RCC_CFGR_SW_PLL == Shl(WordBits(RCC_CFGR_SW_PLL_value), RCC_CFGR_SW_bit)
RCC_CFGR_SWS == Shl(WordBits(RCC_CFGR_SWS_mask), RCC_CFGR_SWS_bit)
RCC_CFGR_SWS_PLL == Shl(WordBits(RCC_CFGR_SWS_PLL_value), RCC_CFGR_SWS_bit)

(***************************************************************************)
(* Pure parts of flash_latency() and pll_start().                          *)
(***************************************************************************)
\* mutant: the thresholds compared with <=
WaitStatesInclusive(f) ==
    IF f <= 24000000 THEN 0
    ELSE IF f <= 48000000 THEN 1
    ELSE 2

\* wait states chosen by flash_latency()
WaitStates(f) ==
    IF f < 24000000 THEN 0
    ELSE IF f < 48000000 THEN 1
    ELSE 2

\* mutant: 15 not skipped
InvalidMul2Without15(m2) == (m2 = 17) \/ (m2 = 18) \/ (m2 = 19)

\* values of mul2 the loop body skips
InvalidMul2(m2) == (m2 = 15) \/ (m2 = 17) \/ (m2 = 18) \/ (m2 = 19)

\* mutant: the multiplication done before the division
Pll2FrequencyMulFirst(c, d2, m2) == Div32(Mul32(c, m2), d2)

\* pll2_frequency = crystal / div2 * mul2 in uint32_t arithmetic; the crystals
\* of Inputs are below 2^31, the product may pass 2^32 and wrap
Pll2Frequency(c, d2, m2) == Mul32(Div32(c, d2), m2)

\* PLL2 range check; a word of 2^31 or more, held as a negative
\* representative, is above 72,000,000 and is rejected here too
Pll2OutOfRange(p2) == p2 < 18000000 \/ p2 > 72000000

\* mutant: the multiplier 6.5 computed as * 65 / 10
Pll1FrequencyTenths(p2, d1, m1) ==
    IF m1 # 10
    THEN Mul32(Div32(p2, d1), m1)
    ELSE Div32(Mul32(Div32(p2, d1), 65), 10)

\* pll1_frequency in uint32_t arithmetic, 10 standing for the multiplier 6.5
Pll1Frequency(p2, d1, m1) ==
    IF m1 # 10
    THEN Mul32(Div32(p2, d1), m1)
    ELSE Div32(Mul32(Div32(p2, d1), 13), 2)

\* mutant: the limits of the PLL2 range check copied to the PLL1 range check
Pll1OutOfRangeAsPll2(p1, f) == p1 < 18000000 \/ p1 > 72000000

\* mutant: a PLL1 output equal to the desired frequency rejected
Pll1OutOfRangeStrictUpper(p1, f) == p1 < 18000000 \/ p1 >= f

\* mutant: the lower limit of the PLL1 output left out
Pll1OutOfRangeNoLower(p1, f) == p1 > f

\* mutant: the comparison with the desired frequency left out
Pll1OutOfRangeNoUpper(p1, f) == p1 < 18000000

\* PLL1 range check
Pll1OutOfRange(p1, f) == p1 < 18000000 \/ p1 > f

\* mutant: a configuration reaching the stored frequency replaces it
BetterOrEqual(p1, best) == p1 >= best

\* "is this configuration better?"
Better(p1, best) == p1 > best

\* mutant: the special case of PLL2MUL == 20 left out
EncodeMul2Plain(m2) == Sub32(m2, 2)

\* encoding of PLL2MUL
EncodeMul2(m2) == IF m2 = 20 THEN RCC_CFGR2_PLL2MUL20_value ELSE Sub32(m2, 2)

\* encoding of PLL1MUL
EncodeMul1(m1) == IF m1 = 10 THEN RCC_CFGR_PLLMUL6_5_value ELSE Sub32(m1, 2)

\* encoding of PREDIV1 and PREDIV2
EncodeDiv(d) == Sub32(d, 1)

(***************************************************************************)
(* State.                                                                  *)
(***************************************************************************)
VARIABLES
    pc,             \* statement main() / pll_start() executes next
    crystal,        \* parameter of pll_start()
    frequency,      \* parameter of pll_start()
    div1, div2, mul1, mul2,             \* loop variables
    pll1_frequency, pll2_frequency,
    best_div1, best_div2, best_mul1, best_mul2, best_frequency,
    wait_states,    \* local of flash_latency()
    FLASH_ACR, RCC_CR, RCC_CFGR, RCC_CFGR2,
    LED_bb,         \* the LED pin main() toggles
    result,         \* value returned by pll_start(), <<>> before it returns
    polls,          \* failed polls so far, saturating at MaxPolls
    trace           \* register writes and successful polls, in program order

loopVars == <<div1, div2, mul1, mul2, pll1_frequency, pll2_frequency>>
bestVars == <<best_div1, best_div2, best_mul1, best_mul2, best_frequency>>
regVars == <<FLASH_ACR, RCC_CR, RCC_CFGR, RCC_CFGR2>>
vars == <<pc, crystal, frequency, loopVars, bestVars, wait_states, regVars,
          LED_bb, result, polls, trace>>

\* mutant: the initialisers of the best_* locals left out, so that they too
\* hold what an earlier run has left
InitWithoutInitialisers ==
    /\ pc = "system_init"
    /\ \E in \in Inputs : crystal = in[1] /\ frequency = in[2]
    /\ \E l \in EntryLocals :
          /\ div1 = l.div1 /\ div2 = l.div2 /\ mul1 = l.mul1 /\ mul2 = l.mul2
          /\ pll1_frequency = l.pll1 /\ pll2_frequency = l.pll2
          /\ best_div1 = l.div1 /\ best_div2 = l.div2
          /\ best_mul1 = l.mul1 /\ best_mul2 = l.mul2
          /\ best_frequency = l.pll1
    /\ wait_states = 0
    /\ \E e \in EntryImages :
          /\ FLASH_ACR = e.acr
          /\ RCC_CR = e.cr
          /\ RCC_CFGR = e.cfgr
          /\ RCC_CFGR2 = e.cfgr2
    /\ LED_bb = 0
    /\ result = <<>>
    /\ polls = 0
    /\ trace = <<>>

\* the locals without initialiser hold any of EntryLocals; the five best_*
\* locals are initialised to 0 by their declaration
Init ==
    /\ pc = "system_init"
    /\ \E in \in Inputs : crystal = in[1] /\ frequency = in[2]
    /\ \E l \in EntryLocals :
          /\ div1 = l.div1 /\ div2 = l.div2 /\ mul1 = l.mul1 /\ mul2 = l.mul2
          /\ pll1_frequency = l.pll1 /\ pll2_frequency = l.pll2
    /\ best_div1 = 0 /\ best_div2 = 0 /\ best_mul1 = 0 /\ best_mul2 = 0
    /\ best_frequency = 0
    /\ wait_states = 0
    /\ \E e \in EntryImages :
          /\ FLASH_ACR = e.acr
          /\ RCC_CR = e.cr
          /\ RCC_CFGR = e.cfgr
          /\ RCC_CFGR2 = e.cfgr2
    /\ LED_bb = 0
    /\ result = <<>>
    /\ polls = 0
    /\ trace = <<>>

(***************************************************************************)
(* main(): system_init(), then pll_start(CRYSTAL, FREQUENCY).              *)
(***************************************************************************)
\* mutant: main() enters pll_start() without having called system_init()
MainWithoutSystemInit ==
    /\ pc = "system_init"
    /\ pc' = "hseon"
    /\ UNCHANGED <<crystal, frequency, loopVars, bestVars, wait_states,
                   regVars, LED_bb, result, polls, trace>>

SystemInit ==
    /\ pc = "system_init"
    /\ pc' = "hseon"
    /\ trace' = Append(trace, "gpio_init")
    /\ UNCHANGED <<crystal, frequency, loopVars, bestVars, wait_states,
                   regVars, LED_bb, result, polls>>

(***************************************************************************)
(* pll_start(): RCC_CR_HSEON_bb = 1; flash_latency(frequency);             *)
(***************************************************************************)
EnableHSE ==
    /\ pc = "hseon"
    /\ RCC_CR' = RCC_CR \cup {RCC_CR_HSEON_bit}
    /\ trace' = Append(trace, "HSEON")
    /\ pc' = "flash_latency"
    /\ UNCHANGED <<crystal, frequency, loopVars, bestVars, wait_states,
                   FLASH_ACR, RCC_CFGR, RCC_CFGR2, LED_bb, result, polls>>

\* mutant: the call of flash_latency() left out
SearchWithoutFlashLatency ==
    /\ pc = "flash_latency"
    /\ div2' = 1
    /\ mul2' = 8
    /\ pc' = "outer"
    /\ UNCHANGED <<crystal, frequency, div1, mul1, pll1_frequency,
                   pll2_frequency, bestVars, wait_states, regVars, LED_bb,
                   result, polls, trace>>

FlashLatency ==
    /\ pc = "flash_latency"
    /\ wait_states' = WaitStates(frequency)
    /\ FLASH_ACR' = FLASH_ACR \cup WordBits(WaitStates(frequency))
    /\ trace' = Append(trace, "LATENCY")
    /\ div2' = 1
    /\ mul2' = 8
    /\ pc' = "outer"
    /\ UNCHANGED <<crystal, frequency, div1, mul1, pll1_frequency,
                   pll2_frequency, bestVars, RCC_CR, RCC_CFGR, RCC_CFGR2,
                   LED_bb, result, polls>>

(***************************************************************************)
(* The search: for (div2 ...) for (mul2 ...) { ... for (div1 ...)          *)
(* for (mul1 ...) { ... } }.  One step per execution of a loop body.       *)
(***************************************************************************)
\* mul2++ of the mul2 loop and, at its end, div2++ of the div2 loop; the
\* search is left when div2 <= 16 fails
AdvanceOuter ==
    IF mul2 + 1 <= 20
    THEN /\ mul2' = mul2 + 1
         /\ div2' = div2
         /\ pc' = "outer"
    ELSE /\ mul2' = IF div2 + 1 <= 16 THEN 8 ELSE mul2 + 1
         /\ div2' = div2 + 1
         /\ pc' = IF div2 + 1 <= 16 THEN "outer" ELSE "encode_pll2"

\* mul1++ of the mul1 loop and, at its end, div1++ of the div1 loop; at the
\* end of the div1 loop the body of the mul2 loop is finished
AdvanceInner ==
    IF mul1 + 1 <= 10
    THEN /\ mul1' = mul1 + 1
         /\ UNCHANGED <<div1, div2, mul2>>
         /\ pc' = "inner"
    ELSE IF div1 + 1 <= 16
    THEN /\ mul1' = 4
         /\ div1' = div1 + 1
         /\ UNCHANGED <<div2, mul2>>
         /\ pc' = "inner"
    ELSE /\ mul1' = mul1 + 1
         /\ div1' = div1 + 1
         /\ AdvanceOuter

\* if (mul2 is 15, 17, 18 or 19) continue;
OuterSkipInvalidMul2 ==
    /\ pc = "outer"
    /\ InvalidMul2(mul2)
    /\ AdvanceOuter
    /\ UNCHANGED <<crystal, frequency, div1, mul1, pll1_frequency,
                   pll2_frequency, bestVars, wait_states, regVars, LED_bb,
                   result, polls, trace>>

\* pll2_frequency = ...; if (out of range) continue;
OuterSkipOutOfRange ==
    /\ pc = "outer"
    /\ ~InvalidMul2(mul2)
    /\ pll2_frequency' = Pll2Frequency(crystal, div2, mul2)
    /\ Pll2OutOfRange(pll2_frequency')
    /\ AdvanceOuter
    /\ UNCHANGED <<crystal, frequency, div1, mul1, pll1_frequency, bestVars,
                   wait_states, regVars, LED_bb, result, polls, trace>>

\* pll2_frequency = ...; in range: the div1 and mul1 loops are entered
OuterEnterInner ==
    /\ pc = "outer"
    /\ ~InvalidMul2(mul2)
    /\ pll2_frequency' = Pll2Frequency(crystal, div2, mul2)
    /\ ~Pll2OutOfRange(pll2_frequency')
    /\ div1' = 1
    /\ mul1' = 4
    /\ pc' = "inner"
    /\ UNCHANGED <<crystal, frequency, div2, mul2, pll1_frequency, bestVars,
                   wait_states, regVars, LED_bb, result, polls, trace>>

\* pll1_frequency = ...; if (out of range) continue;
InnerSkipOutOfRange ==
    /\ pc = "inner"
    /\ pll1_frequency' = Pll1Frequency(pll2_frequency, div1, mul1)
    /\ Pll1OutOfRange(pll1_frequency', frequency)
    /\ AdvanceInner
    /\ UNCHANGED <<crystal, frequency, pll2_frequency, bestVars, wait_states,
                   regVars, LED_bb, result, polls, trace>>

\* pll1_frequency in range but not better than the stored configuration
InnerKeep ==
    /\ pc = "inner"
    /\ pll1_frequency' = Pll1Frequency(pll2_frequency, div1, mul1)
    /\ ~Pll1OutOfRange(pll1_frequency', frequency)
    /\ ~Better(pll1_frequency', best_frequency)
    /\ AdvanceInner
    /\ UNCHANGED <<crystal, frequency, pll2_frequency, bestVars, wait_states,
                   regVars, LED_bb, result, polls, trace>>

\* mutant: best_mul1 = mul1 left out of the parameters saved
InnerSaveWithoutMul1 ==
    /\ pc = "inner"
    /\ pll1_frequency' = Pll1Frequency(pll2_frequency, div1, mul1)
    /\ ~Pll1OutOfRange(pll1_frequency', frequency)
    /\ Better(pll1_frequency', best_frequency)
    /\ best_frequency' = pll1_frequency'
    /\ best_div2' = div2
    /\ best_mul2' = mul2
    /\ best_div1' = div1
    /\ best_mul1' = best_mul1
    /\ AdvanceInner
    /\ UNCHANGED <<crystal, frequency, pll2_frequency, wait_states, regVars,
                   LED_bb, result, polls, trace>>

\* pll1_frequency in range and better: save all parameters
InnerSave ==
    /\ pc = "inner"
    /\ pll1_frequency' = Pll1Frequency(pll2_frequency, div1, mul1)
    /\ ~Pll1OutOfRange(pll1_frequency', frequency)
    /\ Better(pll1_frequency', best_frequency)
    /\ best_frequency' = pll1_frequency'
    /\ best_div2' = div2
    /\ best_mul2' = mul2
    /\ best_div1' = div1
    /\ best_mul1' = mul1
    /\ AdvanceInner
    /\ UNCHANGED <<crystal, frequency, pll2_frequency, wait_states, regVars,
                   LED_bb, result, polls, trace>>

(***************************************************************************)
(* The sequencer: encode, program, enable, wait.                           *)
(***************************************************************************)
\* mutant: the enable bit of PLL2 polled in place of its ready flag
PLL2ReadyPollsEnable(cr) == RCC_CR_PLL2ON_bit \in cr

\* mutant: the requested source (SW) polled in place of the status (SWS)
SwitchedToPLLPollsSW(cfgr) ==
    FieldValue(cfgr, RCC_CFGR_SW_bit, 2) = RCC_CFGR_SW_PLL_value

\* polled conditions
HSEReady(cr) == RCC_CR_HSERDY_bit \in cr

PLL2Ready(cr) == RCC_CR_PLL2RDY_bit \in cr

PLLReady(cr) == RCC_CR_PLLRDY_bit \in cr

SwitchedToPLL(cfgr) == (cfgr \cap RCC_CFGR_SWS) = RCC_CFGR_SWS_PLL

\* a poll that fails: the while loop goes round
Spin ==
    /\ polls' = IF polls < MaxPolls THEN polls + 1 ELSE polls
    /\ UNCHANGED <<pc, crystal, frequency, loopVars, bestVars, wait_states,
                   regVars, LED_bb, result, trace>>

\* a poll that succeeds: the while loop is left
Proceed(event, next) ==
    /\ trace' = Append(trace, event)
    /\ pc' = next
    /\ UNCHANGED <<crystal, frequency, loopVars, bestVars, wait_states,
                   regVars, LED_bb, result, polls>>

\* encode PLL2MUL, PREDIV2 and PREDIV1
EncodePLL2 ==
    /\ pc = "encode_pll2"
    /\ best_mul2' = EncodeMul2(best_mul2)
    /\ best_div2' = EncodeDiv(best_div2)
    /\ best_div1' = EncodeDiv(best_div1)
    /\ pc' = "cfgr2"
    /\ UNCHANGED <<crystal, frequency, loopVars, best_mul1, best_frequency,
                   wait_states, regVars, LED_bb, result, polls, trace>>

\* the word or-ed into RCC->CFGR2
CFGR2Word(m2, d2, d1) ==
    RCC_CFGR2_PREDIV1SRC
        \cup Shl(WordBits(m2), RCC_CFGR2_PLL2MUL_bit)
        \cup Shl(WordBits(d2), RCC_CFGR2_PREDIV2_bit)
        \cup Shl(WordBits(d1), RCC_CFGR2_PREDIV1_bit)

\* mutant: the word assigned to RCC->CFGR2 (=) where the code ors it in (|=)
WriteCFGR2Assigns ==
    /\ pc = "cfgr2"
    /\ RCC_CFGR2' = CFGR2Word(best_mul2, best_div2, best_div1)
    /\ trace' = Append(trace, "CFGR2")
    /\ pc' = "wait_hse"
    /\ UNCHANGED <<crystal, frequency, loopVars, bestVars, wait_states,
                   FLASH_ACR, RCC_CR, RCC_CFGR, LED_bb, result, polls>>

WriteCFGR2 ==
    /\ pc = "cfgr2"
    /\ RCC_CFGR2' = RCC_CFGR2 \cup CFGR2Word(best_mul2, best_div2, best_div1)
    /\ trace' = Append(trace, "CFGR2")
    /\ pc' = "wait_hse"
    /\ UNCHANGED <<crystal, frequency, loopVars, bestVars, wait_states,
                   FLASH_ACR, RCC_CR, RCC_CFGR, LED_bb, result, polls>>

WaitHSESpin == pc = "wait_hse" /\ ~HSEReady(RCC_CR) /\ Spin

WaitHSEDone == pc = "wait_hse" /\ HSEReady(RCC_CR) /\ Proceed("HSERDY", "pll2on")

EnablePLL2 ==
    /\ pc = "pll2on"
    /\ RCC_CR' = RCC_CR \cup {RCC_CR_PLL2ON_bit}
    /\ trace' = Append(trace, "PLL2ON")
    /\ pc' = "encode_pll1"
    /\ UNCHANGED <<crystal, frequency, loopVars, bestVars, wait_states,
                   FLASH_ACR, RCC_CFGR, RCC_CFGR2, LED_bb, result, polls>>

\* encode PLL1MUL
EncodePLL1 ==
    /\ pc = "encode_pll1"
    /\ best_mul1' = EncodeMul1(best_mul1)
    /\ pc' = "cfgr"
    /\ UNCHANGED <<crystal, frequency, loopVars, best_div1, best_div2,
                   best_mul2, best_frequency, wait_states, regVars, LED_bb,
                   result, polls, trace>>

\* mutant: the APB1 prescaler left out of the word
CFGRWordWithoutPrescaler(m1) ==
    Shl(WordBits(m1), RCC_CFGR_PLLMUL_bit) \cup RCC_CFGR_PLLSRC

\* the word or-ed into RCC->CFGR before PLL1 is enabled
CFGRWord(m1) ==
    Shl(WordBits(m1), RCC_CFGR_PLLMUL_bit)
        \cup RCC_CFGR_PLLSRC \cup RCC_CFGR_PPRE1_DIV2

WriteCFGR ==
    /\ pc = "cfgr"
    /\ RCC_CFGR' = RCC_CFGR \cup CFGRWord(best_mul1)
    /\ trace' = Append(trace, "CFGR")
    /\ pc' = "wait_pll2"
    /\ UNCHANGED <<crystal, frequency, loopVars, bestVars, wait_states,
                   FLASH_ACR, RCC_CR, RCC_CFGR2, LED_bb, result, polls>>

WaitPLL2Spin == pc = "wait_pll2" /\ ~PLL2Ready(RCC_CR) /\ Spin

WaitPLL2Done == pc = "wait_pll2" /\ PLL2Ready(RCC_CR) /\ Proceed("PLL2RDY", "pllon")

EnablePLL ==
    /\ pc = "pllon"
    /\ RCC_CR' = RCC_CR \cup {RCC_CR_PLLON_bit}
    /\ trace' = Append(trace, "PLLON")
    /\ pc' = "wait_pll"
    /\ UNCHANGED <<crystal, frequency, loopVars, bestVars, wait_states,
                   FLASH_ACR, RCC_CFGR, RCC_CFGR2, LED_bb, result, polls>>

WaitPLLSpin == pc = "wait_pll" /\ ~PLLReady(RCC_CR) /\ Spin

WaitPLLDone == pc = "wait_pll" /\ PLLReady(RCC_CR) /\ Proceed("PLLRDY", "sw")

\* mutant: the switch to the PLL is never requested
SwitchNotRequested ==
    /\ pc = "sw"
    /\ trace' = Append(trace, "SW")
    /\ pc' = "wait_sws"
    /\ UNCHANGED <<crystal, frequency, loopVars, bestVars, wait_states,
                   regVars, LED_bb, result, polls>>

\* change SYSCLK to PLL
SwitchToPLL ==
    /\ pc = "sw"
    /\ RCC_CFGR' = RCC_CFGR \cup RCC_CFGR_SW_PLL
    /\ trace' = Append(trace, "SW")
    /\ pc' = "wait_sws"
    /\ UNCHANGED <<crystal, frequency, loopVars, bestVars, wait_states,
                   FLASH_ACR, RCC_CR, RCC_CFGR2, LED_bb, result, polls>>

WaitSWSSpin == pc = "wait_sws" /\ ~SwitchedToPLL(RCC_CFGR) /\ Spin

WaitSWSDone == pc = "wait_sws" /\ SwitchedToPLL(RCC_CFGR) /\ Proceed("SWS", "return")

\* return best_frequency;
ReturnValue(best) == <<best>>

Return ==
    /\ pc = "return"
    /\ result' = ReturnValue(best_frequency)
    /\ trace' = Append(trace, "return")
    /\ pc' = "gpio_pin_cfg"
    /\ UNCHANGED <<crystal, frequency, loopVars, bestVars, wait_states,
                   regVars, LED_bb, polls>>

(***************************************************************************)
(* main() after pll_start(): configure the LED pin and blink.              *)
(***************************************************************************)
GpioPinCfg ==
    /\ pc = "gpio_pin_cfg"
    /\ trace' = Append(trace, "gpio_pin_cfg")
    /\ pc' = "blink"
    /\ UNCHANGED <<crystal, frequency, loopVars, bestVars, wait_states,
                   regVars, LED_bb, result, polls>>

Blink ==
    /\ pc = "blink"
    /\ LED_bb' = 1 - LED_bb
    /\ UNCHANGED <<pc, crystal, frequency, loopVars, bestVars, wait_states,
                   regVars, result, polls, trace>>

(***************************************************************************)
(* The peripheral.  The readiness flags and the switch status are owned by *)
(* the hardware, which may change them in any way.  The search accesses no *)
(* register, so hardware steps taken during it commute with its steps:     *)
(* they are taken from the end of the search on, up to the last poll.      *)
(***************************************************************************)
SequencerPcs ==
    {"encode_pll2", "cfgr2", "wait_hse", "pll2on", "encode_pll1", "cfgr",
     "wait_pll2", "pllon", "wait_pll", "sw", "wait_sws"}

ReadyBits == {RCC_CR_HSERDY_bit, RCC_CR_PLL2RDY_bit, RCC_CR_PLLRDY_bit}

Toggle(reg, b) == IF b \in reg THEN reg \ {b} ELSE reg \cup {b}

HwReadyFlag ==
    /\ pc \in SequencerPcs
    /\ \E b \in ReadyBits : RCC_CR' = Toggle(RCC_CR, b)
    /\ UNCHANGED <<pc, crystal, frequency, loopVars, bestVars, wait_states,
                   FLASH_ACR, RCC_CFGR, RCC_CFGR2, LED_bb, result, polls,
                   trace>>

HwSwitchStatus ==
    /\ pc \in SequencerPcs
    /\ \E v \in 0..RCC_CFGR_SWS_mask :
          /\ RCC_CFGR' = (RCC_CFGR \ RCC_CFGR_SWS)
                             \cup Shl(WordBits(v), RCC_CFGR_SWS_bit)
          /\ RCC_CFGR' # RCC_CFGR
    /\ UNCHANGED <<pc, crystal, frequency, loopVars, bestVars, wait_states,
                   FLASH_ACR, RCC_CR, RCC_CFGR2, LED_bb, result, polls,
                   trace>>

\* the steps of main() and of the functions it calls
Program ==
    \/ SystemInit
    \/ EnableHSE
    \/ FlashLatency
    \/ OuterSkipInvalidMul2
    \/ OuterSkipOutOfRange
    \/ OuterEnterInner
    \/ InnerSkipOutOfRange
    \/ InnerKeep
    \/ InnerSave
    \/ EncodePLL2
    \/ WriteCFGR2
    \/ WaitHSESpin
    \/ WaitHSEDone
    \/ EnablePLL2
    \/ EncodePLL1
    \/ WriteCFGR
    \/ WaitPLL2Spin
    \/ WaitPLL2Done
    \/ EnablePLL
    \/ WaitPLLSpin
    \/ WaitPLLDone
    \/ SwitchToPLL
    \/ WaitSWSSpin
    \/ WaitSWSDone
    \/ Return
    \/ GpioPinCfg
    \/ Blink

Next ==
    \/ Program
    \/ HwReadyFlag
    \/ HwSwitchStatus

Spec == Init /\ [][Next]_vars

(***************************************************************************)
(* The peripheral working as intended: a readiness flag is raised some     *)
(* time after its enable bit has been written, the switch status follows   *)
(* the requested source, and no flag is taken back.  The processor keeps   *)
(* executing.                                                              *)
(***************************************************************************)
\* the flag rdy of RCC->CR goes up once the enable bit on is set
Raise(on, rdy) ==
    /\ on \in RCC_CR
    /\ rdy \notin RCC_CR
    /\ RCC_CR' = RCC_CR \cup {rdy}
    /\ UNCHANGED <<pc, crystal, frequency, loopVars, bestVars, wait_states,
                   FLASH_ACR, RCC_CFGR, RCC_CFGR2, LED_bb, result, polls,
                   trace>>

HSEStarts ==
    /\ pc \in SequencerPcs
    /\ Raise(RCC_CR_HSEON_bit, RCC_CR_HSERDY_bit)

PLL2Locks ==
    /\ pc \in SequencerPcs
    /\ Raise(RCC_CR_PLL2ON_bit, RCC_CR_PLL2RDY_bit)

PLLLocks ==
    /\ pc \in SequencerPcs
    /\ Raise(RCC_CR_PLLON_bit, RCC_CR_PLLRDY_bit)

ClockSwitches ==
    /\ pc \in SequencerPcs
    /\ FieldValue(RCC_CFGR, RCC_CFGR_SW_bit, 2) = RCC_CFGR_SW_PLL_value
    /\ (RCC_CFGR \cap RCC_CFGR_SWS) # RCC_CFGR_SWS_PLL
    /\ RCC_CFGR' = (RCC_CFGR \ RCC_CFGR_SWS) \cup RCC_CFGR_SWS_PLL
    /\ UNCHANGED <<pc, crystal, frequency, loopVars, bestVars, wait_states,
                   FLASH_ACR, RCC_CR, RCC_CFGR2, LED_bb, result, polls,
                   trace>>

NextLive ==
    \/ Program
    \/ HSEStarts
    \/ PLL2Locks
    \/ PLLLocks
    \/ ClockSwitches

LiveSpec ==
    /\ Init
    /\ [][NextLive]_vars
    /\ WF_vars(Program)
    /\ WF_vars(HSEStarts)
    /\ WF_vars(PLL2Locks)
    /\ WF_vars(PLLLocks)
    /\ WF_vars(ClockSwitches)

(***************************************************************************)
(* Sets of program positions.                                              *)
(***************************************************************************)
SearchPcs == {"outer", "inner"}

\* the stored setting, in the order of the loops
bestTuple == <<best_div2, best_mul2, best_div1, best_mul1>>

AfterSearchPcs == SequencerPcs \cup {"return", "gpio_pin_cfg", "blink"}

Returned == result # <<>>

(***************************************************************************)
(* Reference for the search: the settings and the two output frequencies   *)
(* as section 4.1 of the specification states them, by enumeration of all  *)
(* tuples and not by the loops of pll_start().                             *)
(***************************************************************************)
RefDividers == 1..16

RefMul2 == {8, 9, 10, 11, 12, 13, 14, 16, 20}

\* 10 is the multiplier 6.5
RefMul1 == {4, 5, 6, 7, 8, 9, 10}

\* in the 32-bit words of the program; a result of 2^31 or more is negative
\* here and fails the range check, as the word does
RefPll2Out(c, d2, m2) == Mul32(c \div d2, m2)

RefPll1Out(p2, d1, m1) ==
    IF m1 = 10 THEN ((p2 \div d1) * 13) \div 2 ELSE (p2 \div d1) * m1

\* the range checks a tuple has to pass
RefPll2InRange(p2) == 18000000 <= p2 /\ p2 <= 72000000

RefPll1InRange(p1, f) == 18000000 <= p1 /\ p1 <= f

SetMax(S) == CHOOSE x \in S : \A y \in S : y <= x

\* PLL1 outputs reachable from the PLL2 output p2 that pass the range check
RefPll1Reachable(p2, f) ==
    {p1 \in {RefPll1Out(p2, d1, m1) : d1 \in RefDividers, m1 \in RefMul1} :
        RefPll1InRange(p1, f)}

\* PLL2 outputs that pass the range check and lead to a valid PLL1 output
RefPll2Usable(c, f) ==
    {p2 \in {RefPll2Out(c, d2, m2) : d2 \in RefDividers, m2 \in RefMul2} :
        RefPll2InRange(p2) /\ RefPll1Reachable(p2, f) # {}}

\* the maximal PLL1 output over all tuples passing both checks, 0 if none
RefMaxOf(c, f) ==
    IF RefPll2Usable(c, f) = {} THEN 0
    ELSE SetMax({SetMax(RefPll1Reachable(p2, f)) : p2 \in RefPll2Usable(c, f)})

\* the tuples (div2, mul2, div1, mul1) that pass both checks and reach m
RefMaximisers(c, f, m) ==
    {t \in RefDividers \X RefMul2 \X RefDividers \X RefMul1 :
        /\ RefPll2InRange(RefPll2Out(c, t[1], t[2]))
        /\ RefPll1Out(RefPll2Out(c, t[1], t[2]), t[3], t[4]) = m
        /\ RefPll1InRange(m, f)}

\* lexicographic order of tuples of length 4
LexLeq(t, u) ==
    \/ t = u
    \/ \E k \in 1..4 : t[k] < u[k] /\ \A j \in 1..(k - 1) : t[j] = u[j]

\* the first maximiser in ascending (div2, mul2, div1, mul1) order
RefFirstOf(c, f) ==
    LET M == RefMaximisers(c, f, RefMaxOf(c, f))
    IN  IF M = {} THEN <<0, 0, 0, 0>>
        ELSE CHOOSE t \in M : \A u \in M : LexLeq(t, u)

\* the reference results of all inputs, enumerated once
RefTable ==
    {[in |-> in,
      feasible |-> RefPll2Usable(in[1], in[2]) # {},
      max |-> RefMaxOf(in[1], in[2]),
      first |-> RefFirstOf(in[1], in[2])] : in \in Inputs}

\* the reference results of the input pll_start() runs on
Ref == CHOOSE r \in RefTable : r.in = <<crystal, frequency>>

(***************************************************************************)
(* C1: whenever some tuple passes both range checks, the frequency the     *)
(* search ends with, and pll_start() returns, is the maximum of pll1Out    *)
(* over all such tuples, computed with floor division in the order         *)
(* (crystal div div2) * mul2, (pll2Out div div1) * mul1.                   *)
(***************************************************************************)
C1_ReturnsMaximum ==
    Ref.feasible =>
        /\ pc \in AfterSearchPcs => best_frequency = Ref.max
        /\ Returned => result = <<Ref.max>>

\* pll_start() has returned the maximum for an input where the order of the
\* truncating division and the multiplication decides it
C1_Witness ==
    /\ Returned
    /\ crystal = 2000001 /\ frequency = 24000000
    /\ result = <<24000000>>

(***************************************************************************)
(* C2: at every point of the search and at return, for every input, the    *)
(* stored best frequency is at most the requested frequency.               *)
(***************************************************************************)
C2_NeverAboveTarget ==
    /\ best_frequency <= frequency
    /\ Returned => result[1] <= frequency

\* inside the search a candidate above the target has just been rejected
\* while a configuration is stored
C2_Witness ==
    /\ pc = "inner"
    /\ pll1_frequency > frequency
    /\ best_frequency > 0

(***************************************************************************)
(* C3: at the end of the search the stored tuple is the lexicographically  *)
(* least (div2, mul2, div1, mul1) among the tuples reaching the maximal    *)
(* pll1Out, and no step of the search replaces the stored tuple while the  *)
(* stored frequency stays the same.                                        *)
(***************************************************************************)
C3_FirstFoundWins ==
    /\ [](pc = "encode_pll2" /\ Ref.feasible =>
            bestTuple = Ref.first)
    /\ [][(pc \in SearchPcs /\ best_frequency' = best_frequency)
              => (bestTuple' = bestTuple)]_vars

\* a later tuple (larger div2) has just produced the stored frequency again
\* and the stored tuple was kept
C3_Witness ==
    /\ pc = "inner"
    /\ best_frequency > 0
    /\ pll1_frequency = best_frequency
    /\ best_div2 < div2

(***************************************************************************)
(* C4: whenever the search has selected a tuple, its PLL2 output is within *)
(* [18 MHz, 72 MHz] and its PLL1 output is strictly greater than 18 MHz    *)
(* and at most the requested frequency (a candidate of exactly 18,000,000  *)
(* is rejected).                                                           *)
(***************************************************************************)
BeforeEncodePcs ==
    {"system_init", "hseon", "flash_latency", "outer", "inner", "encode_pll2"}

C4_SelectedWithinRanges ==
    (pc \in BeforeEncodePcs /\ best_frequency > 0) =>
        /\ RefPll2InRange(RefPll2Out(crystal, best_div2, best_mul2))
        /\ best_frequency
             = RefPll1Out(RefPll2Out(crystal, best_div2, best_mul2),
                          best_div1, best_mul1)
        /\ best_frequency > 18000000
        /\ best_frequency <= frequency

(***************************************************************************)
(* C5 as stated: in every state of the search and at its end, for every    *)
(* input, the stored mul2 is none of 15, 17, 18, 19 and the stored mul1 is *)
(* one of 4..9 or the sentinel 10 (6.5).                                   *)
(***************************************************************************)
C5_StoredMultipliersLegal ==
    pc \in SearchPcs \cup {"encode_pll2"} =>
        /\ best_mul2 \notin {15, 17, 18, 19}
        /\ best_mul1 \in RefMul1

(***************************************************************************)
(* C5 as amended: in every state of the search and at its end the stored   *)
(* mul2 is none of 15, 17, 18, 19; once a tuple has been stored the stored *)
(* mul2 is one of 8..14, 16, 20 and the stored mul1 one of 4..9 or 10      *)
(* (6.5); while none has been stored both are 0.                           *)
(***************************************************************************)
C5_StoredMultipliersLegalOrZero ==
    pc \in SearchPcs \cup {"encode_pll2"} =>
        /\ best_mul2 \notin {15, 17, 18, 19}
        /\ IF best_frequency > 0
           THEN best_mul2 \in RefMul2 /\ best_mul1 \in RefMul1
           ELSE best_mul2 = 0 /\ best_mul1 = 0

\* the search has ended with the 6.5 multiplier stored
C5_Witness ==
    /\ pc = "encode_pll2"
    /\ best_mul1 = 10
    /\ best_mul2 \in RefMul2

(***************************************************************************)
(* C6: the wait states flash_latency() selects are a step function of the  *)
(* requested frequency alone: 0 below 24,000,000, 1 from 24,000,000 and    *)
(* below 48,000,000, 2 from 48,000,000, exact at 23,999,999, 24,000,000,   *)
(* 47,999,999 and 48,000,000, always one of 0, 1, 2; they are or-ed into   *)
(* FLASH->ACR.                                                             *)
(***************************************************************************)
LatencyDone == pc \notin {"system_init", "hseon", "flash_latency"}

C6_WaitStatesStepFunction ==
    LatencyDone =>
        /\ wait_states \in {0, 1, 2}
        /\ frequency < 24000000 => wait_states = 0
        /\ (24000000 <= frequency /\ frequency < 48000000) => wait_states = 1
        /\ frequency >= 48000000 => wait_states = 2
        /\ frequency = 23999999 => wait_states = 0
        /\ frequency = 24000000 => wait_states = 1
        /\ frequency = 47999999 => wait_states = 1
        /\ frequency = 48000000 => wait_states = 2
        /\ WordBits(wait_states) \subseteq FLASH_ACR

\* flash_latency() has run for the boundary value 24,000,000
C6_Witness ==
    /\ LatencyDone
    /\ frequency = 24000000
    /\ wait_states = 1

(***************************************************************************)
(* Order of the logged register accesses.                                  *)
(***************************************************************************)
Logged(e) == \E i \in DOMAIN trace : trace[i] = e

\* every occurrence of b in the log has an occurrence of a before it
Precedes(a, b) ==
    \A j \in DOMAIN trace : trace[j] = b => \E i \in 1..(j - 1) : trace[i] = a

(***************************************************************************)
(* C7 as stated: the write of the flash wait states precedes the write     *)
(* that enables the external oscillator (HSEON) and the writes that enable *)
(* PLL2 (PLL2ON) and PLL1 (PLLON).                                         *)
(***************************************************************************)
C7_LatencyBeforeEveryEnable ==
    /\ Precedes("LATENCY", "HSEON")
    /\ Precedes("LATENCY", "PLL2ON")
    /\ Precedes("LATENCY", "PLLON")

(***************************************************************************)
(* C7 as amended: the write of the flash wait states precedes the writes   *)
(* that enable PLL2 (PLL2ON) and PLL1 (PLLON); it follows the write that   *)
(* enables the external oscillator (HSEON), which is the first register    *)
(* write of pll_start().                                                   *)
(***************************************************************************)
C7_LatencyBeforePLLEnables ==
    /\ Precedes("HSEON", "LATENCY")
    /\ Precedes("LATENCY", "PLL2ON")
    /\ Precedes("LATENCY", "PLLON")

\* PLL1 has been enabled, after the wait states and the oscillator
C7_Witness ==
    /\ Logged("PLLON")
    /\ Logged("LATENCY")
    /\ RCC_CR_PLLON_bit \in RCC_CR

(***************************************************************************)
(* C8: whatever the hardware does with the flags, PLL2 is enabled only     *)
(* after the crystal-oscillator-ready flag has been read true, PLL1 only   *)
(* after the PLL2-locked flag has been read true, and the switch to PLL1   *)
(* is requested only after the PLL1-locked flag has been read true.  A     *)
(* wait is left only by a step that finds the flag set in the register.    *)
(***************************************************************************)
C8_EnablesGatedByReadiness ==
    /\ [](/\ Precedes("HSERDY", "PLL2ON")
          /\ Precedes("PLL2RDY", "PLLON")
          /\ Precedes("PLLRDY", "SW"))
    /\ [][/\ (~Logged("HSERDY") /\ Logged("HSERDY")')
                => (RCC_CR_HSERDY_bit \in RCC_CR)
          /\ (~Logged("PLL2RDY") /\ Logged("PLL2RDY")')
                => (RCC_CR_PLL2RDY_bit \in RCC_CR)
          /\ (~Logged("PLLRDY") /\ Logged("PLLRDY")')
                => (RCC_CR_PLLRDY_bit \in RCC_CR)]_vars

\* the switch has been requested although the hardware has taken the
\* oscillator-ready flag back after it was read
C8_Witness ==
    /\ Logged("SW")
    /\ Logged("PLL2ON")
    /\ Logged("PLLON")
    /\ RCC_CR_HSERDY_bit \notin RCC_CR

(***************************************************************************)
(* C9: pll_start() has returned only if the four conditions were read true *)
(* in order, the last being the switch status SWS reading PLL (not the     *)
(* requested source SW); as long as the condition of a wait is false no    *)
(* step leaves the wait, logs an access or returns.                        *)
(***************************************************************************)
Waiting ==
    \/ pc = "wait_hse" /\ RCC_CR_HSERDY_bit \notin RCC_CR
    \/ pc = "wait_pll2" /\ RCC_CR_PLL2RDY_bit \notin RCC_CR
    \/ pc = "wait_pll" /\ RCC_CR_PLLRDY_bit \notin RCC_CR
    \/ /\ pc = "wait_sws"
       /\ FieldValue(RCC_CFGR, RCC_CFGR_SWS_bit, 2) # RCC_CFGR_SWS_PLL_value

C9_ReturnsOnlyAfterFourWaits ==
    /\ [](Returned =>
            /\ Logged("HSERDY") /\ Logged("PLL2RDY")
            /\ Logged("PLLRDY") /\ Logged("SWS")
            /\ Precedes("HSERDY", "PLL2RDY")
            /\ Precedes("PLL2RDY", "PLLRDY")
            /\ Precedes("PLLRDY", "SWS")
            /\ Precedes("SWS", "return"))
    /\ [][/\ (~Logged("SWS") /\ Logged("SWS")')
                => (FieldValue(RCC_CFGR, RCC_CFGR_SWS_bit, 2)
                        = RCC_CFGR_SWS_PLL_value)
          /\ Waiting => (pc' = pc /\ trace' = trace /\ result' = result)]_vars

\* pll_start() has returned after polls that failed
C9_Witness ==
    /\ Returned
    /\ polls = MaxPolls
    /\ Logged("SWS")

(***************************************************************************)
(* C10: if the hardware raises each readiness flag after its enable or     *)
(* request has been written and keeps it raised, pll_start() eventually    *)
(* returns; the value returned is best_frequency, which no step of the     *)
(* sequencer changes.                                                      *)
(***************************************************************************)
C10_TerminatesWithBestFrequency ==
    /\ <>Returned
    /\ [](Returned => result = <<best_frequency>>)
    /\ [][(pc \in SequencerPcs \cup {"return"})
            => (best_frequency' = best_frequency)]_vars

\* pll_start() has returned a frequency below the requested one
C10_Witness ==
    /\ Returned
    /\ result = <<best_frequency>>
    /\ best_frequency > 0
    /\ best_frequency < frequency

(***************************************************************************)
(* The register writes and enables of pll_start(), as they are logged.     *)
(***************************************************************************)
SequenceWrites == {"HSEON", "LATENCY", "CFGR2", "PLL2ON", "CFGR", "PLLON", "SW"}

ZeroTuple == <<0, 0, 0, 0>>

PendingCFGR2Word == CFGR2Word(best_mul2, best_div2, best_div1)

PendingCFGRWord == CFGRWord(best_mul1)

WrittenPREDIV1 == Field(PendingCFGR2Word, RCC_CFGR2_PREDIV1_bit, RCC_CFGR2_PREDIV1_mask)

WrittenPREDIV2 == Field(PendingCFGR2Word, RCC_CFGR2_PREDIV2_bit, RCC_CFGR2_PREDIV2_mask)

WrittenPLL2MUL == Field(PendingCFGR2Word, RCC_CFGR2_PLL2MUL_bit, RCC_CFGR2_PLL2MUL_mask)

WrittenPLLMUL == Field(PendingCFGRWord, RCC_CFGR_PLLMUL_bit, RCC_CFGR_PLLMUL_mask)

(***************************************************************************)
(* C12: when no tuple passes both range checks, the values pll_start()     *)
(* writes into the fields PREDIV1, PREDIV2, PLL2MUL (word or-ed into       *)
(* RCC->CFGR2) and PLLMUL (word or-ed into RCC->CFGR) are all 0: the       *)
(* encoding steps, value - 1 and value - 2, leave the zero tuple zero.     *)
(***************************************************************************)
C12_InfeasibleProgramsZeroFields ==
    ~Ref.feasible =>
        /\ pc = "cfgr2" =>
              (WrittenPREDIV1 = 0 /\ WrittenPREDIV2 = 0 /\ WrittenPLL2MUL = 0)
        /\ pc = "cfgr" => WrittenPLLMUL = 0

(***************************************************************************)
(* C13: the tuple (div2, mul2, div1, mul1) and the frequency the search    *)
(* ends with are a function of (crystal, frequency) alone: for every       *)
(* content of the registers and of the uninitialised locals on entry (what *)
(* earlier code or an earlier run has left) and for every timing of the    *)
(* readiness flags they are the ones the enumeration gives for the input,  *)
(* so two runs on the same input end with the same tuple and frequency; a  *)
(* step that only changes a register changes neither.                      *)
(***************************************************************************)
C13_SearchDeterministic ==
    /\ [](pc = "encode_pll2" =>
            (bestTuple = Ref.first /\ best_frequency = Ref.max))
    /\ [](Returned => result = <<Ref.max>>)
    /\ [][(pc' = pc /\ regVars' # regVars)
            => (bestVars' = bestVars /\ result' = result)]_vars

\* pll_start() has returned the frequency of the enumeration after it was
\* entered with bits set in the registers and after polls that failed
C13_Witness ==
    /\ Returned
    /\ crystal = 12000000 /\ frequency = 72000000
    /\ result = <<72000000>>
    /\ {4, 19} \subseteq RCC_CFGR
    /\ {0, 4} \subseteq FLASH_ACR
    /\ polls = MaxPolls

(***************************************************************************)
(* The two output frequencies of the stored setting, before it is encoded. *)
(***************************************************************************)
StoredPll2Out == RefPll2Out(crystal, best_div2, best_mul2)

StoredPll1Out == RefPll1Out(StoredPll2Out, best_div1, best_mul1)

StoredTupleLegal ==
    /\ best_div2 \in RefDividers /\ best_mul2 \in RefMul2
    /\ best_div1 \in RefDividers /\ best_mul1 \in RefMul1

(***************************************************************************)
(* C14: for crystal = 25,000,000 and frequency = 72,000,000 the search     *)
(* ends with, and pll_start() returns, exactly 72,000,000; the stored      *)
(* tuple is a legal one whose PLL2 output lies in [18 MHz, 72 MHz] and     *)
(* whose PLL1 output is 72,000,000; flash_latency() configures 2 wait      *)
(* states.                                                                 *)
(***************************************************************************)
C14_Scenario25MHz ==
    (crystal = 25000000 /\ frequency = 72000000) =>
        /\ pc = "encode_pll2" =>
              /\ best_frequency = 72000000
              /\ StoredTupleLegal
              /\ RefPll2InRange(StoredPll2Out)
              /\ StoredPll1Out = 72000000
        /\ LatencyDone =>
              (wait_states = 2 /\ WordBits(2) \subseteq FLASH_ACR)
        /\ Returned => result = <<72000000>>

\* pll_start() has returned 72,000,000 for the 25 MHz crystal
C14_Witness ==
    /\ Returned
    /\ crystal = 25000000 /\ frequency = 72000000
    /\ result = <<72000000>>
    /\ wait_states = 2

(***************************************************************************)
(* C15: for crystal = 8,000,000 and frequency = 168,000,000 the frequency  *)
(* the search ends with, and pll_start() returns, is the maximum the       *)
(* enumeration of all tuples finds under the constraints of the search     *)
(* (PLL2 output in [18 MHz, 72 MHz], mul1 one of 4..9 or 6.5); the value   *)
(* 168,000,000 is returned only if a legal tuple stored by the search      *)
(* produces it.                                                            *)
(***************************************************************************)
C15_Scenario8MHz ==
    (crystal = 8000000 /\ frequency = 168000000) =>
        /\ pc \in AfterSearchPcs => best_frequency = Ref.max
        /\ Returned => result = <<Ref.max>>
        /\ (pc = "encode_pll2" /\ best_frequency = 168000000) =>
              /\ StoredTupleLegal
              /\ RefPll2InRange(StoredPll2Out)
              /\ StoredPll1Out = 168000000
        /\ (pc = "encode_pll2" /\ best_frequency # 168000000) =>
              RefMaximisers(crystal, frequency, 168000000) = {}

\* pll_start() has returned for the 8 MHz crystal; a tuple reaches the
\* requested 168,000,000
C15_Witness ==
    /\ Returned
    /\ crystal = 8000000 /\ frequency = 168000000
    /\ result = <<168000000>>
    /\ wait_states = 2

(***************************************************************************)
(* C16: for crystal = 12,000,000 and frequency = 72,000,000 the search     *)
(* ends with best_frequency = 72,000,000 and the tuple div2 = 2, mul2 = 8, *)
(* div1 = 4, mul1 = 6, which is the first maximiser of the enumeration;    *)
(* pll_start() returns 72,000,000.                                         *)
(***************************************************************************)
C16_Scenario12MHz ==
    (crystal = 12000000 /\ frequency = 72000000) =>
        /\ pc = "encode_pll2" =>
              /\ best_frequency = 72000000
              /\ best_div2 = 2 /\ best_mul2 = 8
              /\ best_div1 = 4 /\ best_mul1 = 6
              /\ bestTuple = Ref.first
        /\ Returned => result = <<72000000>>

\* the search has ended for the 12 MHz crystal with the expected tuple
C16_Witness ==
    /\ pc = "encode_pll2"
    /\ crystal = 12000000 /\ frequency = 72000000
    /\ bestTuple = <<2, 8, 4, 6>>

(***************************************************************************)
(* Number of times an access has been logged.                              *)
(***************************************************************************)
Count(e) == Cardinality({i \in DOMAIN trace : trace[i] = e})

\* main() has left pll_start()
AfterPllStartPcs == {"gpio_pin_cfg", "blink"}

(***************************************************************************)
(* C17 as stated: pll_start() is entered exactly once and before any other *)
(* initialisation: neither gpio_init() (called by system_init()) nor       *)
(* gpio_pin_cfg() runs before the first statement of pll_start().          *)
(***************************************************************************)
C17_ClockStartupBeforeAnyInit ==
    /\ Count("HSEON") <= 1
    /\ Count("return") <= 1
    /\ pc \in AfterPllStartPcs => (Count("HSEON") = 1 /\ Count("return") = 1)
    /\ Precedes("HSEON", "gpio_init")
    /\ Precedes("HSEON", "gpio_pin_cfg")

(***************************************************************************)
(* C17 as amended: pll_start() is entered exactly once, after              *)
(* system_init() has called gpio_init() and before gpio_pin_cfg() and the  *)
(* blinking loop; it has returned before gpio_pin_cfg() runs.              *)
(***************************************************************************)
C17_ClockStartupOnceAfterSystemInit ==
    /\ Count("HSEON") <= 1
    /\ Count("return") <= 1
    /\ pc \in AfterPllStartPcs => (Count("HSEON") = 1 /\ Count("return") = 1)
    /\ Precedes("gpio_init", "HSEON")
    /\ Precedes("return", "gpio_pin_cfg")

\* the LED is lit in the blinking loop; gpio_init() was the first thing logged
C17_Witness ==
    /\ pc = "blink"
    /\ LED_bb = 1
    /\ trace[1] = "gpio_init"
    /\ Count("HSEON") = 1

(***************************************************************************)
(* Meaning of a field value by the tables of the register header: the      *)
(* multiplier or divider the header names for it.                          *)
(***************************************************************************)
Decode(table, e) == CHOOSE n \in DOMAIN table : table[n] = e

Decodable(table, e) == \E n \in DOMAIN table : table[n] = e

Injective(table) ==
    \A a, b \in DOMAIN table : table[a] = table[b] => a = b

\* values a 4-bit field holds
FieldRange == 0..RCC_CFGR_PLLMUL_mask

(***************************************************************************)
(* C18: div1 and div2 are encoded as value - 1, mul2 as value - 2 except   *)
(* 20, encoded as 15, mul1 as value - 2 except 10 (6.5), encoded as 13.    *)
(* For every legal value the encoded value lies in 0..15 and is the value  *)
(* the register header names for it; the encodings are injective; for an   *)
(* input with a valid tuple the fields of the words pll_start() writes     *)
(* decode to the tuple the search has chosen, and the words have no bit    *)
(* outside these fields and the fixed bits or-ed to them.                  *)
(***************************************************************************)
C18_EncodingFaithful ==
    /\ DOMAIN RCC_CFGR2_PLL2MUL_value = RefMul2
    /\ DOMAIN RCC_CFGR_PLLMUL_value = RefMul1
    /\ DOMAIN RCC_CFGR2_PREDIV2_value = RefDividers
    /\ DOMAIN RCC_CFGR2_PREDIV1_value = RefDividers
    /\ \A d \in RefDividers :
          /\ EncodeDiv(d) = d - 1
          /\ EncodeDiv(d) \in FieldRange
          /\ EncodeDiv(d) = RCC_CFGR2_PREDIV2_value[d]
          /\ EncodeDiv(d) = RCC_CFGR2_PREDIV1_value[d]
    /\ \A m \in RefMul2 :
          /\ EncodeMul2(m) = (IF m = 20 THEN 15 ELSE m - 2)
          /\ EncodeMul2(m) \in FieldRange
          /\ EncodeMul2(m) = RCC_CFGR2_PLL2MUL_value[m]
    /\ \A m \in RefMul1 :
          /\ EncodeMul1(m) = (IF m = 10 THEN 13 ELSE m - 2)
          /\ EncodeMul1(m) \in FieldRange
          /\ EncodeMul1(m) = RCC_CFGR_PLLMUL_value[m]
    /\ Injective(RCC_CFGR2_PLL2MUL_value) /\ Injective(RCC_CFGR_PLLMUL_value)
    /\ Injective(RCC_CFGR2_PREDIV2_value) /\ Injective(RCC_CFGR2_PREDIV1_value)
    /\ \A a, b \in RefMul2 : EncodeMul2(a) = EncodeMul2(b) => a = b
    /\ \A a, b \in RefMul1 : EncodeMul1(a) = EncodeMul1(b) => a = b
    /\ \A a, b \in RefDividers : EncodeDiv(a) = EncodeDiv(b) => a = b
    /\ (Ref.feasible /\ pc = "cfgr2") =>
          /\ Decodable(RCC_CFGR2_PREDIV2_value, WrittenPREDIV2)
          /\ Decodable(RCC_CFGR2_PLL2MUL_value, WrittenPLL2MUL)
          /\ Decodable(RCC_CFGR2_PREDIV1_value, WrittenPREDIV1)
          /\ Decode(RCC_CFGR2_PREDIV2_value, WrittenPREDIV2) = Ref.first[1]
          /\ Decode(RCC_CFGR2_PLL2MUL_value, WrittenPLL2MUL) = Ref.first[2]
          /\ Decode(RCC_CFGR2_PREDIV1_value, WrittenPREDIV1) = Ref.first[3]
          /\ PendingCFGR2Word \subseteq (0..11) \cup RCC_CFGR2_PREDIV1SRC
    /\ (Ref.feasible /\ pc = "cfgr") =>
          /\ Decodable(RCC_CFGR_PLLMUL_value, WrittenPLLMUL)
          /\ Decode(RCC_CFGR_PLLMUL_value, WrittenPLLMUL) = Ref.first[4]
          /\ PendingCFGRWord \subseteq
                (18..21) \cup RCC_CFGR_PLLSRC \cup RCC_CFGR_PPRE1_DIV2

\* the word for RCC->CFGR is about to be written with the code of the 6.5
\* multiplier, after PLL2MUL and the dividers of the same tuple were written
C18_Witness ==
    /\ pc = "cfgr"
    /\ Ref.feasible
    /\ WrittenPLLMUL = RCC_CFGR_PLLMUL6_5_value
    /\ Ref.first[4] = 10
    /\ Logged("CFGR2")

(***************************************************************************)
(* C19: in every execution the word holding the PLL2 multiplier, PREDIV2,  *)
(* PREDIV1 and the PREDIV1 source is written to RCC->CFGR2 before the wait *)
(* for the crystal oscillator and before PLL2 is enabled; the word holding *)
(* the PLL1 multiplier, the PLL1 source and the APB1 divide-by-2 prescaler *)
(* is written to RCC->CFGR after PLL2 is enabled and before PLL1 is        *)
(* enabled; the flash wait states and the APB1 prescaler are written       *)
(* before the switch of the system clock to PLL1 is requested.             *)
(***************************************************************************)
C19_ConfigurationPrecedesEnabling ==
    /\ pc = "wait_hse" => Logged("CFGR2")
    /\ Precedes("CFGR2", "HSERDY")
    /\ Precedes("CFGR2", "PLL2ON")
    /\ Precedes("PLL2ON", "CFGR")
    /\ Precedes("CFGR", "PLLON")
    /\ Precedes("LATENCY", "SW")
    /\ Precedes("CFGR", "SW")
    /\ Logged("LATENCY") => WordBits(WaitStates(frequency)) \subseteq FLASH_ACR
    /\ Logged("CFGR2") =>
          /\ RCC_CFGR2_PREDIV1SRC \subseteq RCC_CFGR2
          /\ Ref.feasible =>
                CFGR2Word(EncodeMul2(Ref.first[2]), EncodeDiv(Ref.first[1]),
                          EncodeDiv(Ref.first[3])) \subseteq RCC_CFGR2
    /\ Logged("CFGR") =>
          /\ RCC_CFGR_PLLSRC \subseteq RCC_CFGR
          /\ RCC_CFGR_PPRE1_DIV2 \subseteq RCC_CFGR
          /\ Ref.feasible =>
                Shl(WordBits(EncodeMul1(Ref.first[4])), RCC_CFGR_PLLMUL_bit)
                    \subseteq RCC_CFGR

\* the switch to PLL1 has been requested with all of the configuration
\* written, in a run entered with all register bits clear
C19_Witness ==
    /\ pc = "wait_sws"
    /\ Logged("SW")
    /\ Ref.feasible
    /\ RCC_CFGR_PPRE1_DIV2 \subseteq RCC_CFGR
    /\ 4 \notin RCC_CFGR
    /\ RCC_CR_PLLON_bit \in RCC_CR

(***************************************************************************)
(* Frame of the program's steps.  A step of the program changes pc, the    *)
(* log, the poll count, a local or the LED; a step of the hardware changes *)
(* none of them.                                                           *)
(***************************************************************************)
ProgramStep ==
    \/ pc' # pc
    \/ trace' # trace
    \/ polls' # polls
    \/ LED_bb' # LED_bb
    \/ loopVars' # loopVars
    \/ bestVars' # bestVars

\* the bits owned by the hardware: HSERDY, PLL2RDY, PLLRDY and SWS
StatusOf(cr, cfgr) == <<cr \cap ReadyBits, cfgr \cap RCC_CFGR_SWS>>

\* no step of the program changes a status bit or clears a bit; no step at
\* all clears a bit other than a status bit; the two configuration words are
\* or-ed into the registers
OnlySetsBits ==
    /\ ProgramStep =>
          /\ StatusOf(RCC_CR', RCC_CFGR') = StatusOf(RCC_CR, RCC_CFGR)
          /\ FLASH_ACR \subseteq FLASH_ACR'
          /\ RCC_CR \subseteq RCC_CR'
          /\ RCC_CFGR \subseteq RCC_CFGR'
          /\ RCC_CFGR2 \subseteq RCC_CFGR2'
    /\ FLASH_ACR \subseteq FLASH_ACR'
    /\ (RCC_CR \ ReadyBits) \subseteq RCC_CR'
    /\ (RCC_CFGR \ RCC_CFGR_SWS) \subseteq RCC_CFGR'
    /\ RCC_CFGR2 \subseteq RCC_CFGR2'
    /\ \A b \in {RCC_CR_HSEON_bit, RCC_CR_PLL2ON_bit, RCC_CR_PLLON_bit} :
          b \in RCC_CR => b \in RCC_CR'
    /\ pc \in BeforeEncodePcs => RCC_CFGR2' = RCC_CFGR2
    /\ (pc = "cfgr2" /\ ProgramStep) =>
          RCC_CFGR2' = RCC_CFGR2 \cup PendingCFGR2Word
    /\ (pc = "cfgr" /\ ProgramStep) =>
          RCC_CFGR' = RCC_CFGR \cup PendingCFGRWord

\* the fields of RCC->CFGR2 and the values being written to them
Cfgr2Fields(reg) ==
    <<Field(reg, RCC_CFGR2_PREDIV1_bit, RCC_CFGR2_PREDIV1_mask),
      Field(reg, RCC_CFGR2_PREDIV2_bit, RCC_CFGR2_PREDIV2_mask),
      Field(reg, RCC_CFGR2_PLL2MUL_bit, RCC_CFGR2_PLL2MUL_mask)>>

WrittenCfgr2Fields == <<WrittenPREDIV1, WrittenPREDIV2, WrittenPLL2MUL>>

PllMulField(reg) == Field(reg, RCC_CFGR_PLLMUL_bit, RCC_CFGR_PLLMUL_mask)

\* the field value v has no 1 bit outside those of the field value w
BitsWithin(v, w) == WordBits(v) \subseteq WordBits(w)

(***************************************************************************)
(* C20 as stated: the program never changes HSERDY, PLL2RDY, PLLRDY or     *)
(* SWS; its register writes only set bits, so no bit of FLASH->ACR,        *)
(* RCC->CR, RCC->CFGR or RCC->CFGR2 that was 1 is cleared and an enable    *)
(* bit once set stays set; and a field programmed by pll_start() equals    *)
(* the encoded value written to it only if the field was 0 before (stated  *)
(* for the inputs that have a valid tuple, whose encoded values fit the    *)
(* fields).                                                                *)
(***************************************************************************)
C20_FrameFieldNeedsZeroEntry ==
    [][/\ OnlySetsBits
       /\ (Ref.feasible /\ pc = "cfgr2" /\ ProgramStep) =>
             \A k \in 1..3 :
                (Cfgr2Fields(RCC_CFGR2')[k] = WrittenCfgr2Fields[k])
                    => (Cfgr2Fields(RCC_CFGR2)[k] = 0)
       /\ (Ref.feasible /\ pc = "cfgr" /\ ProgramStep) =>
             ((PllMulField(RCC_CFGR') = WrittenPLLMUL)
                 => (PllMulField(RCC_CFGR) = 0))]_vars

(***************************************************************************)
(* C20 as amended: the program never changes HSERDY, PLL2RDY, PLLRDY or    *)
(* SWS; its register writes only set bits, so no bit of FLASH->ACR,        *)
(* RCC->CR, RCC->CFGR or RCC->CFGR2 that was 1 is cleared and an enable    *)
(* bit once set stays set; a field programmed by pll_start() equals the    *)
(* encoded value written to it if the field was 0 before, and in general   *)
(* exactly if the field had no 1 bit before that the encoded value lacks.  *)
(***************************************************************************)
C20_FrameFieldIsOrOfEntry ==
    [][/\ OnlySetsBits
       /\ (pc = "cfgr2" /\ ProgramStep) =>
             \A k \in 1..3 :
                /\ (Cfgr2Fields(RCC_CFGR2)[k] = 0)
                      => (Cfgr2Fields(RCC_CFGR2')[k] = WrittenCfgr2Fields[k])
                /\ (Cfgr2Fields(RCC_CFGR2')[k] = WrittenCfgr2Fields[k])
                      <=> BitsWithin(Cfgr2Fields(RCC_CFGR2)[k],
                                     WrittenCfgr2Fields[k])
       /\ (pc = "cfgr" /\ ProgramStep) =>
             /\ (PllMulField(RCC_CFGR) = 0)
                   => (PllMulField(RCC_CFGR') = WrittenPLLMUL)
             /\ (PllMulField(RCC_CFGR') = WrittenPLLMUL)
                   <=> BitsWithin(PllMulField(RCC_CFGR), WrittenPLLMUL)]_vars

\* RCC->CFGR2 was entered with PLL2MUL = 2 and PREDIV1 = 1; the 25 MHz tuple
\* has been or-ed in: PLL2MUL holds the encoded 6, PREDIV1 holds 5 where the
\* encoded value is 4
C20_Witness ==
    /\ pc = "wait_hse"
    /\ crystal = 25000000 /\ frequency = 72000000
    /\ Cfgr2Fields(RCC_CFGR2) = <<5, 4, 6>>
    /\ best_div1 = 4 /\ best_div2 = 4 /\ best_mul2 = 6

(***************************************************************************)
(* Exact arithmetic.  The frequency crystal / div2 * mul2 as an unbounded  *)
(* integer, where the program computes it in a 32-bit word.                *)
(***************************************************************************)
\* the exact value of (c div d2) * m2 lies in [18 MHz, 72 MHz]; a product
\* with h >= 2^15 is 2^31 or more
ExactPll2InRange(c, d2, m2) ==
    LET w == WideMul(c \div d2, m2)
    IN  /\ w[1] < 32768
        /\ 18000000 <= w[1] * 65536 + w[2]
        /\ w[1] * 65536 + w[2] <= 72000000

\* no (div2, mul2) gives a PLL2 output in [18 MHz, 72 MHz] from the crystal c
NoPll2Setting(c) ==
    \A d2 \in RefDividers, m2 \in RefMul2 : ~ExactPll2InRange(c, d2, m2)

\* the inputs pll_start() does not validate and cannot serve
UnvalidatedInput ==
    \/ crystal = 0
    \/ frequency = 0
    \/ frequency < 18000000
    \/ NoPll2Setting(crystal)

(***************************************************************************)
(* C21: for crystal = 0, for frequency = 0, for every frequency below      *)
(* 18,000,000 and for every crystal from which no (div2, mul2) gives a     *)
(* PLL2 output in [18 MHz, 72 MHz], the search stores no tuple: it ends    *)
(* with best_frequency = 0 and pll_start() returns 0, there being no error *)
(* path.                                                                   *)
(***************************************************************************)
C21_UnvalidatedInputsEndWithZero ==
    (pc \in AfterSearchPcs /\ UnvalidatedInput) =>
        /\ best_frequency = 0
        /\ Returned => result = <<0>>

(***************************************************************************)
(* The setting the encoded best_* locals stand for, by the tables of the   *)
(* register header, and the PLL1 output it produces.                       *)
(***************************************************************************)
ProgrammedPll1Out ==
    RefPll1Out(RefPll2Out(crystal,
                          Decode(RCC_CFGR2_PREDIV2_value, best_div2),
                          Decode(RCC_CFGR2_PLL2MUL_value, best_mul2)),
               Decode(RCC_CFGR2_PREDIV1_value, best_div1),
               Decode(RCC_CFGR_PLLMUL_value, best_mul1))

(***************************************************************************)
(* C22: during the search best_frequency never decreases; whenever it is   *)
(* above 0 it is the PLL1 output of the stored (best_div2, best_mul2,      *)
(* best_div1, best_mul1); a step of the search changes the stored tuple    *)
(* exactly if it changes the stored frequency; and the value returned is   *)
(* the PLL1 output of the setting that was programmed.                     *)
(***************************************************************************)
C22_StoredTupleProducesStoredFrequency ==
    /\ []((pc \in BeforeEncodePcs /\ best_frequency > 0) =>
            (StoredTupleLegal /\ best_frequency = StoredPll1Out))
    /\ []((Returned /\ best_frequency > 0) =>
            (result = <<best_frequency>> /\ result[1] = ProgrammedPll1Out))
    /\ [][(pc \in SearchPcs) =>
            /\ best_frequency' >= best_frequency
            /\ (bestTuple' # bestTuple) <=> (best_frequency' # best_frequency)
         ]_vars

\* a setting is stored and the search has just met a valid candidate below
\* the stored frequency, which it has not saved
C22_Witness ==
    /\ pc = "inner"
    /\ best_frequency > 0
    /\ pll1_frequency >= 18000000
    /\ pll1_frequency < best_frequency
    /\ pll1_frequency <= frequency

(***************************************************************************)
(* C23: the wait states are those of the requested frequency and the       *)
(* stored and the returned frequency never exceed the requested one, so    *)
(* the wait states written are at least those the step function gives for  *)
(* the achieved frequency; once written they stay at the value of the      *)
(* requested frequency, also when the achieved frequency is lower or 0.    *)
(***************************************************************************)
C23_WaitStatesCoverAchieved ==
    /\ [](LatencyDone =>
            /\ wait_states = WaitStates(frequency)
            /\ WordBits(wait_states) \subseteq FLASH_ACR
            /\ best_frequency <= frequency
            /\ best_frequency >= 24000000 => wait_states >= 1
            /\ best_frequency >= 48000000 => wait_states = 2
            /\ Returned =>
                 /\ result[1] <= frequency
                 /\ result[1] >= 24000000 => wait_states >= 1
                 /\ result[1] >= 48000000 => wait_states = 2)
    /\ [][LatencyDone =>
            (wait_states' = wait_states /\ FLASH_ACR' = FLASH_ACR)]_vars

\* pll_start() has returned a frequency of a lower band than the requested
\* one: 2 wait states are configured where the returned frequency needs 1
C23_Witness ==
    /\ Returned
    /\ result[1] > 0
    /\ result[1] < 48000000
    /\ frequency >= 48000000
    /\ wait_states = 2

(***************************************************************************)
(* The highest allowed core frequency of the STM32F107VB the file comment  *)
(* of main.c names for this routine.                                       *)
(***************************************************************************)
DocumentedMaximum == 72000000

(***************************************************************************)
(* C24: the requested frequency is the only upper bound on the PLL1 output *)
(* the search accepts: every candidate of at least 18,000,000 and at most  *)
(* the requested frequency that is above the stored one is saved, also     *)
(* when it is above the documented 72 MHz; for crystal = 8,000,000 and     *)
(* frequency = 168,000,000 the search ends with, and pll_start() returns,  *)
(* exactly 168,000,000.                                                    *)
(***************************************************************************)
C24_OnlyTargetBoundsPll1 ==
    /\ []((crystal = 8000000 /\ frequency = 168000000) =>
            /\ pc \in AfterSearchPcs => best_frequency = 168000000
            /\ Returned =>
                 (result = <<168000000>> /\ result[1] > DocumentedMaximum))
    /\ [][(/\ pc = "inner"
           /\ pll1_frequency' >= 18000000
           /\ pll1_frequency' <= frequency
           /\ pll1_frequency' > best_frequency) =>
               best_frequency' = pll1_frequency'
         ]_vars

\* pll_start() has returned a frequency above the documented maximum
C24_Witness ==
    /\ Returned
    /\ frequency > DocumentedMaximum
    /\ result[1] > DocumentedMaximum
    /\ best_frequency = result[1]

(***************************************************************************)
(* C25: every PLL2 output the inner loops see has passed the range check   *)
(* and is at most 72,000,000; the intermediates of pll2 div div1 * mul1    *)
(* and of pll2 div div1 * 13 div 2 are then at most 936,000,000, below     *)
(* 2^32, and pll1_frequency is the result of unbounded arithmetic.  For    *)
(* every crystal up to 214,748,364 the product (crystal div div2) * mul2   *)
(* is below 2^32 and pll2_frequency is that product.                       *)
(***************************************************************************)
C25_NoWrapWithinBounds ==
    /\ [][(pc = "inner") =>
            LET q == pll2_frequency \div div1
            IN  /\ 18000000 <= pll2_frequency /\ pll2_frequency <= 72000000
                /\ q * mul1 <= 936000000
                /\ q * 13 <= 936000000
                /\ pll1_frequency' =
                       IF mul1 # 10 THEN q * mul1 ELSE (q * 13) \div 2
         ]_vars
    /\ [][(/\ pc = "outer"
           /\ ~InvalidMul2(mul2)
           /\ crystal <= 214748364) =>
            LET q == crystal \div div2
            IN  /\ FitsWord(q, mul2)
                /\ Div32(pll2_frequency', mul2) = q
                /\ pll2_frequency' = Mul32(q, mul2)
         ]_vars

\* the largest intermediate has been computed: PLL2 output 72,000,000,
\* div1 = 1 and the multiplier 6.5 gave 936,000,000 div 2
C25_Witness ==
    /\ pc = "inner"
    /\ pll2_frequency = 72000000
    /\ pll1_frequency = 468000000
    /\ crystal <= 214748364

=============================================================================
